---- MODULE Spec2Model ----
(***************************************************************************)
(* Model of the pdf2csv-render extraction service.                         *)
(*                                                                         *)
(*   src/main.py    parse_items (anchor scan over the text lines of a      *)
(*                  document), clean_name_from_buffer, the line            *)
(*                  classifiers, load_article_map, make_csv_excel_friendly *)
(*                  and the /extract endpoint.                             *)
(*   src/parser.py  parse_pdf_items (table strategy with regex fallback)   *)
(*                  and build_csv_from_pdf.                                *)
(*                                                                         *)
(* Text.  A normalized line (normalize_space: whitespace collapsed and     *)
(* trimmed) is modelled as the sequence of its blank-separated tokens, so  *)
(* " ".join(lines) followed by normalize_space is the concatenation of the *)
(* token sequences.  TLA+ strings are ASCII, so the Cyrillic tokens of the *)
(* source are written in transliteration:                                  *)
(*     "RUB" = the rouble sign      "mm" = "мм"        "kg" = "кг"         *)
(*     "Foto" = "Фото"   "Tovar" = "Товар"   "gabarity" = "габариты"       *)
(*     "ves" = "вес"  "cena" "za" "sht" = "цена за шт"  "kol-vo"  "summa"  *)
(*     "stranica:" = "страница:"   "vash" "proekt" = "ваш проект"          *)
(*     "sozdan" = "создан"  "razvertka" "steny" = "развертка стены"        *)
(*     "stoimost" "proekta" = "стоимость проекта"                          *)
(*     "obshij" = "общий"  "maksimalnyj" "gabarit" "zakaza"                *)
(*     "adres:" = "адрес:"   "telefon:" = "телефон:"   "email"             *)
(***************************************************************************)
EXTENDS Integers, Sequences, FiniteSets, TLC

(***************************************************************************)
(* Bounds of the model.                                                    *)
(***************************************************************************)
\* most lines after the first in a free-form document
MaxFreeLen == 4
\* most item blocks in an itemised document
MaxBlocks == 3
\* longest buffer handed to clean_name_from_buffer on its own
MaxBufLen == 3
\* most data rows of a catalog workbook
MaxCatalogRows == 2
\* most name lines between an opening money-line and its quantity line
MaxPad == 9

(***************************************************************************)
(* Program constants.                                                      *)
(***************************************************************************)
\* main.py:225  end = min(len(lines), i + 10)
Lookahead == 10
\* main.py:231  1 <= q <= 500
QtyMin == 1
QtyMax == 500
\* main.py:100
CATEGORY_VALUE == 2

(***************************************************************************)
(* Tokens.                                                                 *)
(***************************************************************************)
\* int(token) for the tokens that are all digits (RX_INT, main.py:28)
IntOf == [t \in {"0", "1", "3", "5", "75", "500", "501", "600"} |->
            CASE t = "0" -> 0 [] t = "1" -> 1 [] t = "3" -> 3 [] t = "5" -> 5
              [] t = "75" -> 75 [] t = "500" -> 500 [] t = "501" -> 501
              [] t = "600" -> 600]

IsDigits(t) == t \in DOMAIN IntOf

\* digits [.,] digits
IsDecimal(t) == t \in {"25.00", "12,5"}

\* a group of exactly three digits, as in "1 200 RUB"
IsGroup3(t) == t \in {"200", "500", "501", "600"}

\* \d{2,}[x]\d{2,}(?:[x]\d{1,})?  (RX_SIZE); every size token of the model
\* also has operands of at most four digits, as RX_DIMS_ANYWHERE asks
IsSize(t) == t \in {"24x10x5", "60x40"}

\* str.lower() on a token
Lower(t) ==
    CASE t = "Foto" -> "foto"
      [] t = "Tovar" -> "tovar"
      [] t = "Stranica:" -> "stranica:"
      [] t = "Adres:" -> "adres:"
      [] t = "Obshij" -> "obshij"
      [] t = "Widget" -> "widget"
      [] t = "Gadget" -> "gadget"
      [] t = "Model" -> "model"
      [] t = "Artikul" -> "artikul"
      [] t = "Naimenovanie" -> "naimenovanie"
      [] t = "Kol-vo" -> "kol-vo"
      [] t = "Kod" -> "kod"
      [] t = "Cvet" -> "cvet"
      [] t = "Itogo" -> "itogo"
      [] t = "Vsego" -> "vsego"
      [] t = "Polka" -> "polka"
      [] t = "GR-65" -> "gr-65"
      [] OTHER -> t

LowerLine(line) == [k \in 1..Len(line) |-> Lower(line[k])]

\* s.startswith(prefix), token by token
StartsWith(line, prefix) ==
    /\ Len(line) >= Len(prefix)
    /\ SubSeq(line, 1, Len(prefix)) = prefix

\* prefix in s, token by token
Contains(line, part) ==
    \E k \in 1..Len(line) :
        /\ k + Len(part) - 1 <= Len(line)
        /\ SubSeq(line, k, k + Len(part) - 1) = part

(***************************************************************************)
(* Regular expressions of main.py:23-34, on token sequences.               *)
(***************************************************************************)
\* RX_INT.fullmatch(line)
RX_INT(line) == Len(line) = 1 /\ IsDigits(line[1])

\* RX_MONEY_LINE.fullmatch(line):
\*   ^\d+(?:[ ]\d{3})*(?:[.,]\d+)?\s*RUB$
RX_MONEY_LINE(line) ==
    /\ Len(line) >= 2
    /\ line[Len(line)] = "RUB"
    /\ LET n == Len(line) - 1 IN
         /\ \A k \in 1..n : k > 1 /\ k < n => IsGroup3(line[k])
         /\ IF n = 1
            THEN IsDigits(line[1]) \/ IsDecimal(line[1])
            ELSE /\ IsDigits(line[1])
                 /\ IsGroup3(line[n]) \/ line[n] \in {"200,50"}

\* RX_ANY_RUB.search(line)
RX_ANY_RUB(line) == \E k \in 1..Len(line) : line[k] = "RUB"

\* RX_WEIGHT.search(line):  \d+(?:[.,]\d+)?\s*kg
RX_WEIGHT(line) ==
    \E k \in 1..Len(line) :
        /\ k < Len(line)
        /\ IsDigits(line[k]) \/ IsDecimal(line[k])
        /\ line[k + 1] = "kg"

\* RX_SIZE.search(line)
RX_SIZE(line) == \E k \in 1..Len(line) : IsSize(line[k])

\* RX_MM.search(line)
RX_MM(line) == \E k \in 1..Len(line) : Lower(line[k]) = "mm"

(***************************************************************************)
(* Line classifiers, main.py:115-165.                                      *)
(***************************************************************************)
is_noise(line) ==
    LET low == LowerLine(line) IN
        \/ low = <<>>
        \/ StartsWith(low, <<"stranica:">>)
        \/ StartsWith(low, <<"vash", "proekt">>)
        \/ Contains(low, <<"proekt", "sozdan">>)
        \/ Contains(low, <<"razvertka", "steny">>)
        \/ Contains(low, <<"stoimost", "proekta">>)

is_totals_block(line) ==
    LET low == LowerLine(line) IN
        \/ StartsWith(low, <<"obshij", "ves">>)
        \/ StartsWith(low, <<"maksimalnyj", "gabarit", "zakaza">>)
        \/ StartsWith(low, <<"adres:">>)
        \/ StartsWith(low, <<"telefon:">>)
        \/ StartsWith(low, <<"email">>)

\* re.fullmatch(r"\d+\s*RUB", normalize_space(line))
is_project_total_only(line) ==
    Len(line) = 2 /\ IsDigits(line[1]) /\ line[2] = "RUB"

is_header_token(line) ==
    LowerLine(line) \in {<<"foto">>, <<"tovar">>, <<"gabarity">>, <<"ves">>,
                         <<"cena", "za", "sht">>, <<"kol-vo">>, <<"summa">>}

looks_like_dim_or_weight(line) ==
    IF RX_WEIGHT(line) THEN TRUE
    ELSE IF RX_SIZE(line) /\ RX_MM(line) THEN TRUE
    ELSE FALSE

looks_like_money_or_qty(line) ==
    IF RX_MONEY_LINE(line) THEN TRUE
    ELSE IF RX_INT(line) THEN TRUE
    ELSE FALSE

(***************************************************************************)
(* Name clean-up, main.py:51-54 and main.py:168-182.  A name is the token  *)
(* sequence of the normalized string.                                      *)
(***************************************************************************)
\* " ".join(lines) then normalize_space
RECURSIVE JoinLines(_)
JoinLines(ls) == IF ls = <<>> THEN <<>> ELSE Head(ls) \o JoinLines(Tail(ls))

\* RX_DIMS_ANYWHERE.sub(" ", name) then normalize_space: every size token
\* followed by the unit token is removed, wherever it stands
RECURSIVE strip_dims_anywhere(_)
strip_dims_anywhere(name) ==
    IF name = <<>> THEN <<>>
    ELSE IF Len(name) >= 2 /\ IsSize(name[1]) /\ Lower(name[2]) = "mm"
         THEN strip_dims_anywhere(SubSeq(name, 3, Len(name)))
         ELSE <<name[1]>> \o strip_dims_anywhere(Tail(name))

\* main.py:171  the lines the first loop of clean_name_from_buffer drops
IsBoilerplate(ln) ==
    is_noise(ln) \/ is_header_token(ln) \/ is_totals_block(ln)
        \/ is_project_total_only(ln)

\* main.py:175-176 with one pop only
PopOnce(filtered) ==
    IF filtered # <<>>
       /\ (looks_like_dim_or_weight(filtered[Len(filtered)])
             \/ looks_like_money_or_qty(filtered[Len(filtered)]))
    THEN SubSeq(filtered, 1, Len(filtered) - 1)
    ELSE filtered

\* main.py:175-176  while filtered and (dim/weight or money/qty): pop()
RECURSIVE PopTail(_)
PopTail(filtered) ==
    IF filtered # <<>>
       /\ (looks_like_dim_or_weight(filtered[Len(filtered)])
             \/ looks_like_money_or_qty(filtered[Len(filtered)]))
    THEN PopTail(SubSeq(filtered, 1, Len(filtered) - 1))
    ELSE filtered

\* re.sub(r"^Foto\s*", "", name, flags=IGNORECASE).strip(); the model has no
\* longer token that begins with the label
StripLabel(name, label) ==
    IF name # <<>> /\ Lower(name[1]) = label THEN Tail(name) ELSE name

clean_name_from_buffer(b) ==
    LET filtered == SelectSeq(b, LAMBDA ln : ~IsBoilerplate(ln))
        kept     == PopTail(filtered)
        name0    == JoinLines(kept)
        name1    == StripLabel(name0, "foto")
        name2    == StripLabel(name1, "tovar")
    IN  strip_dims_anywhere(name2)

(***************************************************************************)
(* The anchor lookahead of parse_items, main.py:224-249.  Indices are the  *)
(* 0-based indices of the code: line j of the page is ls[j + 1].  None is  *)
(* written -1.                                                             *)
(***************************************************************************)
None == -1

Min(a, b) == IF a < b THEN a ELSE b

\* main.py:225 with the window running to the end of the page
WindowEndWholePage(ls, at) == Len(ls)

\* main.py:225
WindowEnd(ls, at) == Min(Len(ls), at + Lookahead)

\* main.py:229-231 without the range test of line 231
IsQtyAnyInt(line) == RX_INT(line)

\* main.py:229-231
IsQty(line) ==
    /\ RX_INT(line)
    /\ QtyMin <= IntOf[line[1]]
    /\ IntOf[line[1]] <= QtyMax

\* main.py:227-233
FindQty(ls, at) ==
    LET cand == {j \in (at + 1)..(WindowEnd(ls, at) - 1) : IsQty(ls[j + 1])}
    IN  IF cand = {} THEN None
        ELSE CHOOSE j \in cand : \A k \in cand : j <= k

\* main.py:242
IsClosing(line) == RX_MONEY_LINE(line) \/ RX_ANY_RUB(line)

\* main.py:240-244
FindSum(ls, at, q) ==
    LET cand == {j \in (q + 1)..(WindowEnd(ls, at) - 1) : IsClosing(ls[j + 1])}
    IN  IF cand = {} THEN None
        ELSE CHOOSE j \in cand : \A k \in cand : j <= k

\* main.py:256 on a mapping that moves an updated key to the end
OrderedAddMoveLast(ord, name, qty) ==
    LET old  == SelectSeq(ord, LAMBDA r : r.name = name)
        rest == SelectSeq(ord, LAMBDA r : r.name # name)
    IN  Append(rest, [name |-> name,
                      qty |-> (IF old = <<>> THEN 0 ELSE old[1].qty) + qty])

\* main.py:256  ordered[name] = ordered.get(name, 0) + qty  on an
\* OrderedDict: an existing key keeps its place, a new key goes last
OrderedAdd(ord, name, qty) ==
    IF \E k \in 1..Len(ord) : ord[k].name = name
    THEN [k \in 1..Len(ord) |->
            IF ord[k].name = name
            THEN [name |-> name, qty |-> ord[k].qty + qty]
            ELSE ord[k]]
    ELSE Append(ord, [name |-> name, qty |-> qty])

\* main.py:109-112  split_lines: the empty lines of the page text are dropped
split_lines(page) == SelectSeq(page, LAMBDA ln : ln # <<>>)

\* main.py:209-224 with the money-line test made before the totals test
BranchMoneyFirst(line, in_t) ==
    IF is_noise(line) \/ is_header_token(line) THEN "discard"
    ELSE IF ~in_t /\ RX_MONEY_LINE(line) THEN "money"
    ELSE IF is_project_total_only(line) \/ is_totals_block(line) THEN "totals"
    ELSE IF in_t THEN "skip"
    ELSE "plain"

\* main.py:209-224  the precedence of the tests on the line at the scan
\* position
Branch(line, in_t) ==
    IF is_noise(line) \/ is_header_token(line) THEN "discard"
    ELSE IF is_project_total_only(line) \/ is_totals_block(line) THEN "totals"
    ELSE IF in_t THEN "skip"
    ELSE IF RX_MONEY_LINE(line) THEN "money"
    ELSE "plain"

(***************************************************************************)
(* The article catalog of main.py (Art.xlsx), main.py:43-48 and 60-98.     *)
(* A workbook cell is [t, v]: t = "none" for an empty cell, "str" for a    *)
(* text cell with the tokens v, "num" for a numeric cell whose str() is    *)
(* the one token of v.  A source is                                        *)
(*   [openpyxl, exists, opens : BOOLEAN, header : Seq(cell),               *)
(*    rows : Seq(Seq(cell))]                                               *)
(* where header is row 1 (ws.max_column cells) and rows are rows 2 to      *)
(* ws.max_row.                                                             *)
(***************************************************************************)
NoneCell == [t |-> "none", v |-> <<>>]
StrCell(toks) == [t |-> "str", v |-> toks]
NumCell(tok) == [t |-> "num", v |-> <<tok>>]

\* the truth value Python gives the cell's value
Truthy(cell) ==
    \/ cell.t = "str" /\ cell.v # <<>>
    \/ cell.t = "num" /\ cell.v # <<"0">>

\* ws.cell(r, c).value of a row: a cell beyond the stored ones is empty
CellAt(row, c) == IF c <= Len(row) THEN row[c] ELSE NoneCell

\* main.py:43-48  lower-case, unify the multiplication glyphs (the size
\* tokens of the model are written with the Latin x already), strip the
\* dimension fragments
normalize_key(name) == strip_dims_anywhere(LowerLine(name))

\* main.py:74  normalize_space(ws.cell(1, c).value or ""): str.replace on a
\* value that is not a string raises AttributeError
HeaderRaises(header) ==
    \E c \in 1..Len(header) : Truthy(header[c]) /\ header[c].t # "str"

\* main.py:75-81  the last column whose header is the label, else the default
ColumnOf(header, label, default) ==
    LET hits == {c \in 1..Len(header) :
                    Truthy(header[c]) /\ LowerLine(header[c].v) = <<label>>}
    IN  IF hits = {} THEN default
        ELSE CHOOSE c \in hits : \A d \in hits : d <= c

\* m[key] = art on a dict
MapPut(m, key, art) ==
    [x \in (DOMAIN m) \cup {key} |-> IF x = key THEN art ELSE m[x]]

\* dict.get(key, "")
MapGet(m, key) == IF key \in DOMAIN m THEN m[key] ELSE <<>>

EmptyMap == [x \in {} |-> <<>>]

\* main.py:83-93
RECURSIVE LoadRows(_, _, _, _)
LoadRows(rows, tcol, acol, m) ==
    IF rows = <<>> THEN m
    ELSE LET tovar == CellAt(Head(rows), tcol)
             art   == CellAt(Head(rows), acol)
         IN  IF ~Truthy(tovar) \/ ~Truthy(art)
             THEN LoadRows(Tail(rows), tcol, acol, m)
             ELSE LoadRows(Tail(rows), tcol, acol,
                           MapPut(m, normalize_key(tovar.v), art.v))

\* main.py:60-95; raised = TRUE when the call ends in an exception
load_article_map(src) ==
    IF ~src.openpyxl
    THEN [map |-> EmptyMap, status |-> "openpyxl_not_installed", raised |-> FALSE]
    ELSE IF ~src.exists
    THEN [map |-> EmptyMap, status |-> "file_not_found", raised |-> FALSE]
    ELSE IF ~src.opens
    THEN [map |-> EmptyMap, status |-> "cannot_open", raised |-> FALSE]
    ELSE IF HeaderRaises(src.header)
    THEN [map |-> EmptyMap, status |-> "AttributeError", raised |-> TRUE]
    ELSE [map |-> LoadRows(src.rows,
                           ColumnOf(src.header, "tovar", 1),
                           ColumnOf(src.header, "artikul", 2),
                           EmptyMap),
          status |-> "ok", raised |-> FALSE]

\* main.py:283-285  the data rows of the CSV
make_csv_excel_friendly(rows, amap) ==
    [k \in 1..Len(rows) |->
        [art |-> MapGet(amap, normalize_key(rows[k].name)),
         name |-> rows[k].name,
         qty |-> rows[k].qty,
         category |-> CATEGORY_VALUE]]

(***************************************************************************)
(* parser.py.  Text is token sequences as above; a float quantity is held  *)
(* in tenths.  Further transliterations: "belyj"/"belaya" = "белый"/       *)
(* "белая", "grafit" = "графит", "naimenovanie", "nomenklatura", "kod",    *)
(* "artikul", "cvet", "kolichestvo", "itogo", "vsego", "rub." = "руб.".    *)
(* In the lines and cells of the model digits occur only as number tokens, *)
(* size tokens and inside the code tokens.                                 *)
(***************************************************************************)
\* float(token.replace(",", ".")) in tenths, for the number tokens
\* \d+(?:[.,]\d+)?  (parser.py:213, 258)
Tenths == [t \in {"0", "1", "3", "5", "75", "600", "12000", "2,5", "25.00"} |->
             CASE t = "0" -> 0 [] t = "1" -> 10 [] t = "3" -> 30 [] t = "5" -> 50
               [] t = "75" -> 750 [] t = "600" -> 6000 [] t = "12000" -> 120000
               [] t = "2,5" -> 25 [] t = "25.00" -> 250]

IsNumber(t) == t \in DOMAIN Tenths

\* \b\d{2,}[.,]?\d*\b  (parser.py:281): a number token of two digits or more
\* before its decimal mark
IsLongNumber(t) == t \in {"75", "600", "12000", "25.00"}

\* at most four digits, no decimal mark
IsShortDigits(t) == t \in {"0", "1", "3", "5", "75", "600"}

\* len() of a token, in characters of the source text
TokLen(t) ==
    CASE t \in {"0", "1", "3", "5", "RUB"} -> 1
      [] t \in {"75", "ab", "GR", "sht"} -> 2
      [] t \in {"600", "2,5", "GPd"} -> 3
      [] t \in {"rub."} -> 4
      [] t \in {"25.00", "12000", "GR-65", "30x10", "60x40", "belyj",
                "itogo", "Itogo", "Vsego", "Polka"} -> 5
      [] OTHER -> 6

\* len() of a normalized line: its tokens and the blanks between them
RECURSIVE CharLen(_)
CharLen(ts) ==
    IF ts = <<>> THEN 0
    ELSE IF Len(ts) = 1 THEN TokLen(ts[1])
    ELSE TokLen(ts[1]) + 1 + CharLen(Tail(ts))

\* str.upper() on a token
Upper(t) ==
    CASE t = "gs-150" -> "GS-150"
      [] t = "GPd" -> "GPD"
      [] t = "30x10" -> "30X10"
      [] t = "60x40" -> "60X40"
      [] t = "Widget" -> "WIDGET"
      [] t = "Gadget" -> "GADGET"
      [] t = "Polka" -> "POLKA"
      [] t = "belyj" -> "BELYJ"
      [] t = "belaya" -> "BELAYA"
      [] t = "grafit" -> "GRAFIT"
      [] t = "ab" -> "AB"
      [] OTHER -> t

\* tokens of letters only: at most eight, and at most five
IsWord8(t) == t \in {"GPd", "GR", "ab", "Widget", "Gadget", "Polka", "belyj",
                     "belaya", "grafit", "Itogo", "Vsego"}
IsWord5(t) == t \in {"GPd", "GR", "ab", "Polka", "belyj", "Itogo", "Vsego"}

\* NxM with operands of at most four digits
IsSize2(t) == t \in {"30x10", "60x40"}

\* a token that _CODE_PAT matches whole (parser.py:22-24)
IsCodeToken(t) == t \in {"GR-65", "gs-150"}

NoCode == <<>>
NoColor == "none"

\* parser.py:27-30
_norm(ts) == ts

\* parser.py:33-39: lower-case; the tokens of the model hold no other sign
\* the substitution would remove
_norm_key(ts) == LowerLine(ts)

\* parser.py:42-56
RECURSIVE _extract_color(_)
_extract_color(ts) ==
    IF ts = <<>> THEN NoColor
    ELSE IF Lower(ts[1]) \in {"belyj", "belaya"} THEN "belyj"
    ELSE IF Lower(ts[1]) = "grafit" THEN "grafit"
    ELSE _extract_color(Tail(ts))

\* parser.py:67-69  the first word followed by a size
RECURSIVE WordSizeCode(_)
WordSizeCode(ts) ==
    IF Len(ts) < 2 THEN NoCode
    ELSE IF IsWord8(ts[1]) /\ IsSize2(ts[2])
         THEN <<Upper(ts[1]), Upper(ts[2])>>
         ELSE WordSizeCode(Tail(ts))

\* parser.py:71-74  the first match of _CODE_PAT in text.upper()
RECURSIVE PatternCode(_)
PatternCode(ts) ==
    IF ts = <<>> THEN NoCode
    ELSE IF IsCodeToken(ts[1]) THEN <<Upper(ts[1])>>
    ELSE IF Len(ts) >= 2 /\ IsWord5(ts[1]) /\ IsShortDigits(ts[2])
         THEN <<Upper(ts[1]), "-", ts[2]>>
         ELSE PatternCode(Tail(ts))

\* parser.py:59-74
_extract_code(ts) ==
    IF ts = <<>> THEN NoCode
    ELSE IF WordSizeCode(ts) # NoCode THEN WordSizeCode(ts)
    ELSE PatternCode(ts)

\* the first run of digits in a token, as a number in tenths; -1 if none
FirstNumberIn(t) ==
    CASE IsNumber(t) -> Tenths[t]
      [] t = "GR-65" -> 650
      [] t = "gs-150" -> 1500
      [] t = "30x10" -> 300
      [] t = "60x40" -> 600
      [] OTHER -> -1

\* the first number of a cell, parser.py:213; -1 when there is none
RECURSIVE FirstNumber(_)
FirstNumber(ts) ==
    IF ts = <<>> THEN -1
    ELSE IF FirstNumberIn(ts[1]) # -1 THEN FirstNumberIn(ts[1])
    ELSE FirstNumber(Tail(ts))

\* parser.py:190-194  the first header cell with one of the labels, 0-based;
\* -1 when there is none
FirstLabelled(header, labels) ==
    LET hits == {c \in 1..Len(header) :
                    \E k \in 1..Len(header[c]) : Lower(header[c][k]) \in labels}
    IN  IF hits = {} THEN -1
        ELSE (CHOOSE c \in hits : \A d \in hits : c <= d) - 1

Max(a, b) == IF a > b THEN a ELSE b

\* parser.py:186-200
NameColumn(header) ==
    IF FirstLabelled(header, {"naimenovanie", "nomenklatura", "tovar"}) # -1
    THEN FirstLabelled(header, {"naimenovanie", "nomenklatura", "tovar"})
    ELSE IF Len(header) > 1 THEN 1 ELSE 0

QtyColumn(header) ==
    IF FirstLabelled(header, {"kol-vo", "kolichestvo", "qty"}) # -1
    THEN FirstLabelled(header, {"kol-vo", "kolichestvo", "qty"})
    ELSE Max(0, Len(header) - 2)

\* parser.py:202-218  the rows one table gives
RECURSIVE TableRows(_, _, _)
TableRows(rs, name_i, qty_i) ==
    IF rs = <<>> THEN <<>>
    ELSE LET r == Head(rs)
             rest == TableRows(Tail(rs), name_i, qty_i)
         IN  IF r = <<>> \/ Len(r) <= Max(name_i, qty_i) THEN rest
             ELSE IF _norm(r[name_i + 1]) = <<>> THEN rest
             ELSE IF FirstNumber(_norm(r[qty_i + 1])) = -1 THEN rest
             ELSE <<[raw_name |-> _norm(r[name_i + 1]),
                     qty |-> FirstNumber(_norm(r[qty_i + 1]))]>> \o rest

\* parser.py:177-218
RECURSIVE AllTableRows(_)
AllTableRows(tables) ==
    IF tables = <<>> THEN <<>>
    ELSE LET t == Head(tables) IN
         (IF t = <<>> \/ Len(t) < 2 THEN <<>>
          ELSE TableRows(Tail(t), NameColumn(t[1]), QtyColumn(t[1])))
            \o AllTableRows(Tail(tables))

\* parser.py:223-224
IsTotalsName(ts) ==
    \E k \in 1..Len(ts) : Lower(ts[k]) \in {"itogo", "vsego", "summa"}

\* parser.py:162-228
_try_extract_tables(pdf) ==
    SelectSeq(AllTableRows(pdf.tables), LAMBDA x : ~IsTotalsName(x.raw_name))

\* parser.py:254  a currency sign or "rub" in the line
HasCurrency(ts) == \E k \in 1..Len(ts) : Lower(ts[k]) \in {"RUB", "rub", "rub."}

\* parser.py:258
Numbers(ts) == SelectSeq(ts, IsNumber)

\* parser.py:264-275  the last number v with 0 < v <= 9999; -1 if none
RECURSIVE LastPlausible(_)
LastPlausible(nums) ==
    IF nums = <<>> THEN -1
    ELSE IF Tenths[nums[Len(nums)]] > 0 /\ Tenths[nums[Len(nums)]] <= 99990
         THEN Tenths[nums[Len(nums)]]
         ELSE LastPlausible(SubSeq(nums, 1, Len(nums) - 1))

\* parser.py:281-282  the text before the first number of two digits or more
RECURSIVE BeforeLongNumber(_)
BeforeLongNumber(ts) ==
    IF ts = <<>> THEN <<>>
    ELSE IF IsLongNumber(ts[1]) THEN <<>>
    ELSE <<ts[1]>> \o BeforeLongNumber(Tail(ts))

\* parser.py:250-286
RECURSIVE FallbackRows(_)
FallbackRows(ls) ==
    IF ls = <<>> THEN <<>>
    ELSE LET ln == _norm(Head(ls))
             rest == FallbackRows(Tail(ls))
         IN  IF CharLen(ln) < 5 THEN rest
             ELSE IF ~HasCurrency(ln) THEN rest
             ELSE IF Len(Numbers(ln)) < 2 THEN rest
             ELSE IF LastPlausible(Numbers(ln)) = -1 THEN rest
             ELSE IF CharLen(BeforeLongNumber(ln)) < 3 THEN rest
             ELSE <<[raw_name |-> BeforeLongNumber(ln),
                     qty |-> LastPlausible(Numbers(ln))]>> \o rest

\* parser.py:231-288
_fallback_regex_parse(pdf) == FallbackRows(pdf.text)

\* parser.py:355-360  "2" for 2.0, "2.5" for 2.5: the integer part and, when
\* there is one, the decimal digit
_format_qty(qty) ==
    IF qty % 10 = 0 THEN <<qty \div 10>> ELSE <<qty \div 10, qty % 10>>

\* parser.py:101-107  col(*names): the first of the names that is a header
\* cell, as its 0-based index; -1 for None
RECURSIVE col(_, _)
col(header, names) ==
    IF names = <<>> THEN -1
    ELSE IF \E c \in 1..Len(header) : header[c] = Head(names)
         THEN (CHOOSE c \in 1..Len(header) :
                  /\ header[c] = Head(names)
                  /\ \A d \in 1..(c - 1) : header[d] # Head(names)) - 1
         ELSE col(header, Tail(names))

\* parser.py:101  str(x).strip().lower() of a header cell, "" for None; the
\* header labels of the model are single tokens
HeaderLabel(cell) == IF cell.t = "none" \/ cell.v = <<>> THEN "" ELSE Lower(cell.v[1])

\* str(value) of a cell that holds a value
CellText(cell) == cell.v

\* parser.py:122  the row has no cell with text
BlankRow(r) == \A c \in 1..Len(r) : r[c].t = "none" \/ r[c].v = <<>>

\* dict.get(key) on the index: the item, or <<>> for None
IdxGet(idx, key) == IF key \in DOMAIN idx THEN <<idx[key]>> ELSE <<>>

\* parser.py:121-147  the index after the rows rs; raised when a row is
\* shorter than a column the loop reads (IndexError)
RECURSIVE IndexRows(_, _, _, _, _, _)
IndexRows(rs, col_name, col_code, col_article, col_color, acc) ==
    IF rs = <<>> \/ acc.raised THEN acc
    ELSE LET r == Head(rs)
             next(a) == IndexRows(Tail(rs), col_name, col_code, col_article,
                                  col_color, a)
             raise == [acc EXCEPT !.raised = TRUE]
             Has(c) == c # -1 /\ r[c + 1].t # "none"
             name == IF Truthy(r[col_name + 1]) THEN _norm(CellText(r[col_name + 1]))
                     ELSE <<>>
             code_val == IF Has(col_code) THEN CellText(r[col_code + 1]) ELSE <<>>
             code == IF _extract_code(code_val) # NoCode
                     THEN _extract_code(code_val) ELSE _extract_code(name)
             color0 == IF Has(col_color)
                       THEN _extract_color(CellText(r[col_color + 1]))
                       ELSE NoColor
             color == IF color0 = NoColor THEN _extract_color(name) ELSE color0
             article == IF Has(col_article) THEN CellText(r[col_article + 1])
                        ELSE <<>>
             item == [code |-> code, color |-> color, name |-> name,
                      article |-> article]
             put1 == MapPut(acc.idx, <<code, color>>, item)
             put2 == IF <<code, NoColor>> \in DOMAIN put1 THEN put1
                     ELSE MapPut(put1, <<code, NoColor>>, item)
         IN
         IF r = <<>> \/ BlankRow(r) THEN next(acc)
         ELSE IF Len(r) <= col_name THEN raise
         ELSE IF name = <<>> THEN next(acc)
         ELSE IF Len(r) <= col_code THEN raise
         ELSE IF code = NoCode THEN next(acc)
         ELSE IF Len(r) <= col_color \/ Len(r) <= col_article THEN raise
         ELSE next([acc EXCEPT !.idx = put2])

\* parser.py:89-149; src is [opens : BOOLEAN, rows : Seq(Seq(cell))];
\* raised = TRUE when the call ends in an exception
_load_items_xlsx(src) ==
    IF ~src.opens THEN [idx |-> EmptyMap, raised |-> TRUE]
    ELSE IF src.rows = <<>> THEN [idx |-> EmptyMap, raised |-> FALSE]
    ELSE LET header == [c \in 1..Len(src.rows[1]) |-> HeaderLabel(src.rows[1][c])]
             col_name == col(header, <<"naimenovanie", "name", "nomenklatura">>)
             col_code == col(header, <<"kod", "code", "model", "oboznachenie", "poziciya">>)
             col_article == col(header, <<"artikul", "sku", "article">>)
             col_color == col(header, <<"cvet", "color">>)
         IN  IF col_name = -1 THEN [idx |-> EmptyMap, raised |-> FALSE]
             ELSE IndexRows(Tail(src.rows), col_name, col_code, col_article,
                            col_color, [idx |-> EmptyMap, raised |-> FALSE])

\* parser.py:326-350  the CSV row of one PdfRow
CsvRow(r, cat) ==
    LET raw_name == _norm(r.raw_name)
        code == _extract_code(raw_name)
        color == _extract_color(raw_name)
        hit == IF cat = EmptyMap \/ code = NoCode THEN <<>>
               ELSE IF IdxGet(cat, <<code, color>>) # <<>>
                    THEN IdxGet(cat, <<code, color>>)
                    ELSE IdxGet(cat, <<code, NoColor>>)
    IN  IF hit = <<>>
        THEN [article |-> <<>>, name |-> raw_name, qty |-> _format_qty(r.qty)]
        ELSE [article |-> hit[1].article,
              name |-> IF color # NoColor
                          /\ _extract_color(hit[1].name) # color
                          /\ ~(\E k \in 1..Len(hit[1].name) :
                                  _norm_key(hit[1].name)[k] = color)
                       THEN Append(hit[1].name, color)
                       ELSE hit[1].name,
              qty |-> _format_qty(r.qty)]

(***************************************************************************)
(* State.                                                                  *)
(***************************************************************************)
VARIABLES
    \* the request of /extract (main.py:476-480)
    filename_pdf,      \* file.filename.lower().endswith(".pdf")
    readable,          \* fitz.open and the page reads succeed
    doc,               \* the text lines of each page, as page.get_text gives them
    \* module state of main.py (main.py:98)
    art_source,        \* what the import of main.py finds at ART_XLSX_PATH
    mpc,               \* "import", "ready", "import_failed"
    ARTICLE_MAP, ARTICLE_MAP_STATUS,
    \* parse_items (main.py:185-265)
    pc,                \* "idle", "pages", "scan", "parsed", "responded"
    p,                 \* pages taken from the document so far
    lines,             \* split_lines(page) of the page being scanned
    i,                 \* the scan index, 0-based as in the code
    ordered,           \* the OrderedDict, as the sequence of its items
    buf,               \* the NameBuffer
    in_totals,
    stats,
    \* what extract answered (main.py:477-498)
    response,
    \* history: every record that reached line 256, with the place of its
    \* anchors and of the buffer lines its name was built from
    emitted,
    bufsrc,
    \* a call of clean_name_from_buffer on its own (main.py:168-182)
    cpc,               \* "idle", "call", "done"
    cbuf,              \* the argument
    cname,             \* the value returned
    \* build_csv_from_pdf and parse_pdf_items (parser.py:291-352)
    build_args,        \* [pdf, items_xlsx, use_catalog]: the arguments
    bpc,               \* "call", "tables_done", "parsed", "catalog", "done"
    table_rows,        \* rows of parse_pdf_items (parser.py:293)
    pdf_rows,          \* what parse_pdf_items returned (parser.py:309)
    fallback_ran,      \* history: _fallback_regex_parse was called
    catalog,           \* parser.py:311-317
    output             \* the data rows written (parser.py:325-350)

parserVars == <<build_args, bpc, table_rows, pdf_rows, fallback_ran, catalog,
                output>>
scanVars == <<pc, p, lines, i, ordered, buf, in_totals, stats, emitted, bufsrc>>
requestVars == <<filename_pdf, readable, doc>>
moduleVars == <<art_source, mpc, ARTICLE_MAP, ARTICLE_MAP_STATUS>>
cleanVars == <<cpc, cbuf, cname>>

(***************************************************************************)
(* Lines and documents the model feeds to parse_items.                     *)
(***************************************************************************)
LA      == <<"Widget">>
LB      == <<"Gadget">>
LModel  == <<"Model", "A">>
LDim    == <<"24x10x5", "mm">>
LWeight == <<"5", "kg">>
LMoney  == <<"25.00", "RUB">>
LBare   == <<"75", "RUB">>
LQty3   == <<"3">>
LQty5   == <<"5">>
LBig    == <<"600">>
LAddr   == <<"Adres:", "Moskva">>
LNoise  == <<"Stranica:", "1">>
LHeader == <<"Foto">>
LRub    == <<"itogo", "75", "RUB">>
LEmpty  == <<>>

\* a free-form document is a name line followed by any sequence of these
FreeLines == {LA, LMoney, LBare, LQty3, LBig, LAddr}

\* an itemised document is a sequence of these blocks
ItemBlock(name, qty) == <<name, LMoney, qty, LRub>>
Blocks == {ItemBlock(LA, LQty3), ItemBlock(LB, LQty3),
           <<LA, LDim, LWeight, LMoney, LQty5, LRub>>,
           <<LBare>>, <<LAddr>>, <<LNoise, LEmpty, LHeader>>, <<LModel>>}

RECURSIVE Flatten(_)
Flatten(ss) == IF ss = <<>> THEN <<>> ELSE Head(ss) \o Flatten(Tail(ss))

\* the document cut into two pages after line k (either page may be empty)
TwoPages(flat, k) == <<SubSeq(flat, 1, k), SubSeq(flat, k + 1, Len(flat))>>

\* d is a free-form document: a name line and at most MaxFreeLen more lines
IsFreeDoc(d) ==
    \E n \in 0..MaxFreeLen : \E flat \in [1..n -> FreeLines] :
        \E k \in 0..(n + 1) : d = TwoPages(<<LA>> \o flat, k)

\* d is an itemised document of at most MaxBlocks blocks
IsItemisedDoc(d) ==
    \E n \in 0..MaxBlocks : \E bs \in [1..n -> Blocks] :
        \E k \in 0..Len(Flatten(bs)) : d = TwoPages(Flatten(bs), k)

\* the lines [plain name, dimension line, money-line, 3, money-line]
ExampleLines == <<LA, LDim, LMoney, LQty3, LMoney>>

\* an anchor triple with no name line before it, then the example
NamelessLines == <<LMoney, LQty3, LRub>> \o ExampleLines

\* a line that is noise and a totals-start at once
LNoiseAddr == <<"Adres:", "proekt", "sozdan">>

\* lines that several patterns match: the noise and totals-start line, then
\* an item, then a bare total (also a money-line) followed by the rest of an
\* item
PrecedenceLines ==
    <<LA, LNoiseAddr, LMoney, LQty3, LRub, LB, LBare, LQty3, LRub>>

\* a name, a money-line, k further name lines, a quantity and a closing line:
\* with k near Lookahead the quantity or the closing line falls outside the
\* lookahead window of the money-line
Padded(k) == <<LA, LMoney>> \o [j \in 1..k |-> LB] \o <<LQty3, LRub>>

\* the same with page-number lines in place of the name lines: the window is
\* as long, and the buffer holds one line
NoisePadded(k) == <<LA, LMoney>> \o [j \in 1..k |-> LNoise] \o <<LQty3, LRub>>

IsNoisePaddedDoc(d) ==
    \E k \in (Lookahead - 4)..MaxPad :
       \E c \in 0..Len(NoisePadded(k)) : d = TwoPages(NoisePadded(k), c)

\* d is the example, or a padded item, cut into two pages anywhere
IsWindowDoc(d) ==
    \/ \E c \in 0..Len(ExampleLines) : d = TwoPages(ExampleLines, c)
    \/ \E c \in 0..Len(NamelessLines) : d = TwoPages(NamelessLines, c)
    \/ \E c \in 0..Len(PrecedenceLines) : d = TwoPages(PrecedenceLines, c)
    \/ IsNoisePaddedDoc(d)
    \/ \E k \in (Lookahead - 4)..MaxPad :
          \E c \in 0..Len(Padded(k)) : d = TwoPages(Padded(k), c)

\* the documents the service is given when the catalog source varies
CatalogDocs ==
    {<<>>, <<ItemBlock(LA, LQty3) \o ItemBlock(LB, LQty3), <<>>>>}

HeaderRows ==
    {<<NoneCell>>,
     <<StrCell(<<"Tovar">>), StrCell(<<"Artikul">>)>>,
     <<StrCell(<<"Artikul">>), StrCell(<<"Tovar">>)>>,
     <<NumCell("1"), StrCell(<<"Tovar">>)>>,
     <<StrCell(<<"Tovar">>), NumCell("0")>>}

DataRows ==
    {<<StrCell(<<"Widget", "60x40", "mm">>), StrCell(<<"ART-1">>)>>,
     <<StrCell(<<"ART-2">>), StrCell(<<"Gadget">>)>>,
     <<NoneCell, StrCell(<<"ART-3">>)>>,
     <<StrCell(<<"Gadget">>), NumCell("5")>>}

\* src is a catalog source of the model: openpyxl missing, no file, a file
\* that does not open, or a workbook of at most MaxCatalogRows data rows
IsArtSource(src) ==
    \/ src = [openpyxl |-> FALSE, exists |-> TRUE, opens |-> TRUE,
              header |-> <<NoneCell>>, rows |-> <<>>]
    \/ src = [openpyxl |-> TRUE, exists |-> FALSE, opens |-> TRUE,
              header |-> <<NoneCell>>, rows |-> <<>>]
    \/ src = [openpyxl |-> TRUE, exists |-> TRUE, opens |-> FALSE,
              header |-> <<NoneCell>>, rows |-> <<>>]
    \/ \E h \in HeaderRows : \E n \in 0..MaxCatalogRows :
          \E rs \in [1..n -> DataRows] :
             src = [openpyxl |-> TRUE, exists |-> TRUE, opens |-> TRUE,
                    header |-> h, rows |-> rs]

\* the workbook the service of the model is started with
DefaultArtSource ==
    [openpyxl |-> TRUE, exists |-> TRUE, opens |-> TRUE,
     header |-> <<StrCell(<<"Tovar">>), StrCell(<<"Artikul">>)>>,
     rows |-> << <<StrCell(<<"Widget", "60x40", "mm">>), StrCell(<<"ART-1">>)>> >>]

NoResponse == [status |-> 0, rows |-> <<>>, debug |-> <<>>]

\* no call of clean_name_from_buffer on its own is under way
CleanIdle == cpc = "idle" /\ cbuf = <<>> /\ cname = <<>>

\* no call of build_csv_from_pdf is under way
ParserIdle ==
    /\ build_args = <<>>
    /\ bpc = "off"
    /\ table_rows = <<>>
    /\ pdf_rows = <<>>
    /\ fallback_ran = FALSE
    /\ catalog = EmptyMap
    /\ output = <<>>

(***************************************************************************)
(* /extract and parse_items, one action per step of the scan.              *)
(***************************************************************************)
Init ==
    /\ \/ /\ filename_pdf = TRUE /\ readable = TRUE /\ IsFreeDoc(doc)
          /\ art_source = DefaultArtSource
       \/ /\ filename_pdf = TRUE /\ readable = TRUE /\ IsItemisedDoc(doc)
          /\ art_source = DefaultArtSource
       \/ /\ filename_pdf = FALSE /\ readable = TRUE /\ doc = <<>>
          /\ art_source = DefaultArtSource
       \/ /\ filename_pdf = TRUE /\ readable = FALSE /\ doc = <<>>
          /\ art_source = DefaultArtSource
       \/ /\ filename_pdf = TRUE /\ readable = TRUE /\ IsWindowDoc(doc)
          /\ art_source = DefaultArtSource
       \/ /\ filename_pdf = TRUE /\ readable = TRUE /\ doc \in CatalogDocs
          /\ IsArtSource(art_source)
    /\ mpc = "import"
    /\ ARTICLE_MAP = EmptyMap
    /\ ARTICLE_MAP_STATUS = "unset"
    /\ pc = "idle"
    /\ p = 0
    /\ lines = <<>>
    /\ i = 0
    /\ ordered = <<>>
    /\ buf = <<>>
    /\ in_totals = FALSE
    /\ stats = [pages |-> 0, items_found |-> 0]
    /\ response = NoResponse
    /\ emitted = <<>>
    /\ bufsrc = <<>>
    /\ CleanIdle
    /\ ParserIdle

\* main.py:98  ARTICLE_MAP, ARTICLE_MAP_STATUS = load_article_map() as the
\* module is imported; an exception there ends the import
ImportMain ==
    /\ mpc = "import"
    /\ LET r == load_article_map(art_source) IN
          IF r.raised
          THEN /\ mpc' = "import_failed"
               /\ UNCHANGED <<ARTICLE_MAP, ARTICLE_MAP_STATUS>>
          ELSE /\ mpc' = "ready"
               /\ ARTICLE_MAP' = r.map
               /\ ARTICLE_MAP_STATUS' = r.status
    /\ UNCHANGED <<art_source, requestVars, parserVars, scanVars, response, cleanVars>>

\* main.py:477-478
RejectName ==
    /\ mpc = "ready"
    /\ pc = "idle"
    /\ ~filename_pdf
    /\ response' = [status |-> 400, rows |-> <<>>, debug |-> <<>>]
    /\ pc' = "responded"
    /\ UNCHANGED <<p, lines, i, ordered, buf, in_totals, stats, emitted, bufsrc>>
    /\ UNCHANGED <<requestVars, parserVars, moduleVars, cleanVars>>

\* main.py:482-485  parse_items raised
ParseFails ==
    /\ mpc = "ready"
    /\ pc = "idle"
    /\ filename_pdf
    /\ ~readable
    /\ response' = [status |-> 500, rows |-> <<>>, debug |-> <<>>]
    /\ pc' = "responded"
    /\ UNCHANGED <<p, lines, i, ordered, buf, in_totals, stats, emitted, bufsrc>>
    /\ UNCHANGED <<requestVars, parserVars, moduleVars, cleanVars>>

\* main.py:186-197
ParseBegin ==
    /\ mpc = "ready"
    /\ pc = "idle"
    /\ filename_pdf
    /\ readable
    /\ ordered' = <<>>
    /\ buf' = <<>>
    /\ in_totals' = FALSE
    /\ stats' = [pages |-> 0, items_found |-> 0]
    /\ pc' = "pages"
    /\ UNCHANGED <<p, lines, i, emitted, bufsrc, response>>
    /\ UNCHANGED <<requestVars, parserVars, moduleVars, cleanVars>>

\* main.py:199-205 with the buffer emptied for every page
NextPageResetBuf ==
    /\ pc = "pages"
    /\ p < Len(doc)
    /\ p' = p + 1
    /\ stats' = [stats EXCEPT !.pages = @ + 1]
    /\ lines' = split_lines(doc[p + 1])
    /\ i' = 0
    /\ buf' = <<>>
    /\ bufsrc' = <<>>
    /\ pc' = IF split_lines(doc[p + 1]) = <<>> THEN "pages" ELSE "scan"
    /\ UNCHANGED <<ordered, in_totals, emitted, response>>
    /\ UNCHANGED <<requestVars, parserVars, moduleVars, cleanVars>>

\* main.py:199-205  the next page of the document; a page without lines is
\* passed over
NextPage ==
    /\ pc = "pages"
    /\ p < Len(doc)
    /\ p' = p + 1
    /\ stats' = [stats EXCEPT !.pages = @ + 1]
    /\ lines' = split_lines(doc[p + 1])
    /\ i' = 0
    /\ pc' = IF split_lines(doc[p + 1]) = <<>> THEN "pages" ELSE "scan"
    /\ UNCHANGED <<ordered, buf, in_totals, emitted, bufsrc, response>>
    /\ UNCHANGED <<requestVars, parserVars, moduleVars, cleanVars>>

\* main.py:206  the while loop of the page ends
EndPage ==
    /\ pc = "scan"
    /\ i >= Len(lines)
    /\ pc' = "pages"
    /\ UNCHANGED <<p, lines, i, ordered, buf, in_totals, stats, emitted, bufsrc, response>>
    /\ UNCHANGED <<requestVars, parserVars, moduleVars, cleanVars>>

AtLine == pc = "scan" /\ i < Len(lines)
line == lines[i + 1]

\* main.py:209-211 with the line kept in the buffer
DiscardKeep ==
    /\ AtLine
    /\ Branch(line, in_totals) = "discard"
    /\ buf' = Append(buf, line)
    /\ bufsrc' = Append(bufsrc, <<p, i>>)
    /\ i' = i + 1
    /\ UNCHANGED <<pc, p, lines, ordered, in_totals, stats, emitted, response>>
    /\ UNCHANGED <<requestVars, parserVars, moduleVars, cleanVars>>

\* main.py:209-211
Discard ==
    /\ AtLine
    /\ Branch(line, in_totals) = "discard"
    /\ i' = i + 1
    /\ UNCHANGED <<pc, p, lines, ordered, buf, in_totals, stats, emitted, bufsrc, response>>
    /\ UNCHANGED <<requestVars, parserVars, moduleVars, cleanVars>>

\* main.py:213-217 without line 214
TotalsTriggerNoFlag ==
    /\ AtLine
    /\ Branch(line, in_totals) = "totals"
    /\ buf' = <<>>
    /\ bufsrc' = <<>>
    /\ i' = i + 1
    /\ UNCHANGED <<pc, p, lines, ordered, in_totals, stats, emitted, response>>
    /\ UNCHANGED <<requestVars, parserVars, moduleVars, cleanVars>>

\* main.py:213-217
TotalsTrigger ==
    /\ AtLine
    /\ Branch(line, in_totals) = "totals"
    /\ in_totals' = TRUE
    /\ buf' = <<>>
    /\ bufsrc' = <<>>
    /\ i' = i + 1
    /\ UNCHANGED <<pc, p, lines, ordered, stats, emitted, response>>
    /\ UNCHANGED <<requestVars, parserVars, moduleVars, cleanVars>>

\* main.py:219-221 without the increment of line 220
SkipInTotalsStay ==
    /\ AtLine
    /\ Branch(line, in_totals) = "skip"
    /\ UNCHANGED i
    /\ UNCHANGED <<pc, p, lines, ordered, buf, in_totals, stats, emitted, bufsrc, response>>
    /\ UNCHANGED <<requestVars, parserVars, moduleVars, cleanVars>>

\* main.py:219-221
SkipInTotals ==
    /\ AtLine
    /\ Branch(line, in_totals) = "skip"
    /\ i' = i + 1
    /\ UNCHANGED <<pc, p, lines, ordered, buf, in_totals, stats, emitted, bufsrc, response>>
    /\ UNCHANGED <<requestVars, parserVars, moduleVars, cleanVars>>

\* main.py:236-238 and 247-249 and 262-263: buf.append(line); i += 1
AppendLine ==
    /\ buf' = Append(buf, line)
    /\ bufsrc' = Append(bufsrc, <<p, i>>)
    /\ i' = i + 1
    /\ UNCHANGED <<pc, p, lines, ordered, in_totals, stats, emitted, response>>
    /\ UNCHANGED <<requestVars, parserVars, moduleVars, cleanVars>>

\* main.py:224-238  a money-line with no quantity in its window
MoneyNoQty ==
    /\ AtLine
    /\ Branch(line, in_totals) = "money"
    /\ FindQty(lines, i) = None
    /\ AppendLine

\* main.py:240-249 with the money-line dropped instead of buffered
MoneyNoSumDrop ==
    /\ AtLine
    /\ Branch(line, in_totals) = "money"
    /\ FindQty(lines, i) # None
    /\ FindSum(lines, i, FindQty(lines, i)) = None
    /\ i' = i + 1
    /\ UNCHANGED <<pc, p, lines, ordered, buf, in_totals, stats, emitted, bufsrc, response>>
    /\ UNCHANGED <<requestVars, parserVars, moduleVars, cleanVars>>

\* main.py:240-249  a quantity, but no closing anchor after it
MoneyNoSum ==
    /\ AtLine
    /\ Branch(line, in_totals) = "money"
    /\ FindQty(lines, i) # None
    /\ FindSum(lines, i, FindQty(lines, i)) = None
    /\ AppendLine

\* main.py:251-260 with the scan resumed after the quantity line
TripleResumeAfterQty ==
    /\ AtLine
    /\ Branch(line, in_totals) = "money"
    /\ FindQty(lines, i) # None
    /\ FindSum(lines, i, FindQty(lines, i)) # None
    /\ LET qty_idx == FindQty(lines, i)
           sum_idx == FindSum(lines, i, qty_idx)
           name    == clean_name_from_buffer(buf)
           qty     == IntOf[lines[qty_idx + 1][1]]
       IN  /\ buf' = <<>>
           /\ bufsrc' = <<>>
           /\ IF name # <<>>
              THEN /\ ordered' = OrderedAdd(ordered, name, qty)
                   /\ stats' = [stats EXCEPT !.items_found = @ + 1]
                   /\ emitted' = Append(emitted,
                                    [name |-> name, qty |-> qty, page |-> p,
                                     open |-> i, qty_idx |-> qty_idx,
                                     sum_idx |-> sum_idx, src |-> bufsrc])
              ELSE UNCHANGED <<ordered, stats, emitted>>
           /\ i' = qty_idx + 1
    /\ UNCHANGED <<pc, p, lines, in_totals, response>>
    /\ UNCHANGED <<requestVars, parserVars, moduleVars, cleanVars>>

\* main.py:251-260  the anchor triple
Triple ==
    /\ AtLine
    /\ Branch(line, in_totals) = "money"
    /\ FindQty(lines, i) # None
    /\ FindSum(lines, i, FindQty(lines, i)) # None
    /\ LET qty_idx == FindQty(lines, i)
           sum_idx == FindSum(lines, i, qty_idx)
           name    == clean_name_from_buffer(buf)
           qty     == IntOf[lines[qty_idx + 1][1]]
       IN  /\ buf' = <<>>
           /\ bufsrc' = <<>>
           /\ IF name # <<>>
              THEN /\ ordered' = OrderedAdd(ordered, name, qty)
                   /\ stats' = [stats EXCEPT !.items_found = @ + 1]
                   /\ emitted' = Append(emitted,
                                    [name |-> name, qty |-> qty, page |-> p,
                                     open |-> i, qty_idx |-> qty_idx,
                                     sum_idx |-> sum_idx, src |-> bufsrc])
              ELSE UNCHANGED <<ordered, stats, emitted>>
           /\ i' = sum_idx + 1
    /\ UNCHANGED <<pc, p, lines, in_totals, response>>
    /\ UNCHANGED <<requestVars, parserVars, moduleVars, cleanVars>>

\* main.py:262-263
Plain ==
    /\ AtLine
    /\ Branch(line, in_totals) = "plain"
    /\ AppendLine

\* main.py:265  return list(ordered.items()), stats
ParseReturn ==
    /\ pc = "pages"
    /\ p >= Len(doc)
    /\ pc' = "parsed"
    /\ UNCHANGED <<p, lines, i, ordered, buf, in_totals, stats, emitted, bufsrc, response>>
    /\ UNCHANGED <<requestVars, parserVars, moduleVars, cleanVars>>

\* main.py:487-498 with the empty result returned as a CSV of no rows
RespondEmptyOk ==
    /\ pc = "parsed"
    /\ response' = [status |-> 200,
                    rows |-> make_csv_excel_friendly(ordered, ARTICLE_MAP),
                    debug |-> <<>>]
    /\ pc' = "responded"
    /\ UNCHANGED <<p, lines, i, ordered, buf, in_totals, stats, emitted, bufsrc>>
    /\ UNCHANGED <<requestVars, parserVars, moduleVars, cleanVars>>

\* main.py:487-498
Respond ==
    /\ pc = "parsed"
    /\ response' =
          IF ordered = <<>>
          THEN [status |-> 422, rows |-> <<>>,
                debug |-> <<[pages |-> stats.pages,
                             items_found |-> stats.items_found,
                             article_map_size |-> Cardinality(DOMAIN ARTICLE_MAP),
                             article_map_status |-> ARTICLE_MAP_STATUS]>>]
          ELSE [status |-> 200,
                rows |-> make_csv_excel_friendly(ordered, ARTICLE_MAP),
                debug |-> <<>>]
    /\ pc' = "responded"
    /\ UNCHANGED <<p, lines, i, ordered, buf, in_totals, stats, emitted, bufsrc>>
    /\ UNCHANGED <<requestVars, parserVars, moduleVars, cleanVars>>

Next ==
    \/ ImportMain
    \/ RejectName
    \/ ParseFails
    \/ ParseBegin
    \/ NextPage
    \/ EndPage
    \/ Discard
    \/ TotalsTrigger
    \/ SkipInTotals
    \/ MoneyNoQty
    \/ MoneyNoSum
    \/ Triple
    \/ Plain
    \/ ParseReturn
    \/ Respond

vars == <<filename_pdf, readable, doc, art_source, mpc, ARTICLE_MAP,
          ARTICLE_MAP_STATUS, pc, p,
          lines, i, ordered, buf, in_totals, stats, response, emitted, bufsrc,
          cpc, cbuf, cname, build_args, bpc, table_rows, pdf_rows, fallback_ran,
          catalog, output>>

Spec == Init /\ [][Next]_vars

(***************************************************************************)
(* Properties of parse_items and /extract, checked under Spec.             *)
(***************************************************************************)
\* the scanned lines of page pg of the document
PageLines(pg) == split_lines(doc[pg])

RECURSIVE SumQty(_, _)
SumQty(em, name) ==
    IF em = <<>> THEN 0
    ELSE (IF Head(em).name = name THEN Head(em).qty ELSE 0)
            + SumQty(Tail(em), name)

FirstEmission(name) ==
    CHOOSE k \in 1..Len(emitted) :
        /\ emitted[k].name = name
        /\ \A j \in 1..(k - 1) : emitted[j].name # name

\* C1: the aggregation table has exactly one entry per distinct emitted
\* name, the entries stand in the order of the first emission of each name,
\* and each quantity is the sum of the quantities emitted under that name.
C1_AggregationOrderAndSum ==
    /\ \A a, b \in 1..Len(ordered) :
          a # b => ordered[a].name # ordered[b].name
    /\ {ordered[k].name : k \in 1..Len(ordered)}
          = {emitted[k].name : k \in 1..Len(emitted)}
    /\ \A a, b \in 1..Len(ordered) :
          a < b => FirstEmission(ordered[a].name) < FirstEmission(ordered[b].name)
    /\ \A k \in 1..Len(ordered) :
          ordered[k].qty = SumQty(emitted, ordered[k].name)

\* a name emitted with quantity 3, another name, then the first name again
\* with quantity 3: one entry of quantity 6 at the first position
C1_Witness ==
    /\ pc = "parsed"
    /\ Len(emitted) = 3
    /\ emitted[1].name = emitted[3].name
    /\ emitted[2].name # emitted[1].name
    /\ emitted[1].qty = 3 /\ emitted[3].qty = 3
    /\ emitted[1].page # emitted[3].page
    /\ Len(ordered) = 2
    /\ ordered[1] = [name |-> emitted[1].name, qty |-> 6]

\* C2: when the scan stands on a bare-total line the step sets in_totals,
\* and from a state with in_totals set every step keeps it set and adds no
\* record.
C2_BareTotalTerminates ==
    [][ /\ (AtLine /\ is_project_total_only(line)) => in_totals'
        /\ in_totals =>
              /\ in_totals'
              /\ ordered' = ordered
              /\ emitted' = emitted
              /\ stats'.items_found = stats.items_found ]_vars

\* item records were found, the scan has passed a bare-total line (and no
\* totals-start line) and now stands on a money-line that opens a complete
\* money, quantity, money triple
C2_Witness ==
    /\ AtLine
    /\ in_totals
    /\ ordered # <<>>
    /\ \E j \in 1..i : is_project_total_only(lines[j])
    /\ \A j \in 1..i : ~is_totals_block(lines[j])
    /\ p = 1
    /\ RX_MONEY_LINE(line)
    /\ FindQty(lines, i) # None
    /\ FindSum(lines, i, FindQty(lines, i)) # None

\* position <<pg, j>> lies after position <<tp, tj>> in the document
After(pg, j, tp, tj) == pg > tp \/ (pg = tp /\ j > tj)

\* the positions of the totals-start lines of the document
TotalsStartAt ==
    UNION {{<<pg, j>> : j \in {x \in 0..(Len(PageLines(pg)) - 1) :
                                  is_totals_block(PageLines(pg)[x + 1])}} :
           pg \in 1..Len(doc)}

\* C3: no line after a totals-start line of the document supplies the
\* quantity, the closing anchor or name text of an emitted record.
C3_TotalsStartIgnoresRest ==
    \A k \in 1..Len(emitted) : \A t \in TotalsStartAt :
        /\ ~After(emitted[k].page, emitted[k].qty_idx, t[1], t[2])
        /\ ~After(emitted[k].page, emitted[k].sum_idx, t[1], t[2])
        /\ \A s \in 1..Len(emitted[k].src) :
              ~After(emitted[k].src[s][1], emitted[k].src[s][2], t[1], t[2])

\* the integer line of value 1..500
InRangeInt(ln) == RX_INT(ln) /\ IntOf[ln[1]] >= 1 /\ IntOf[ln[1]] <= 500

\* C4: the quantity of every emitted record is the value of an integer line
\* in 1..500, the first such line after the opening money-line; and a
\* money-line at the scan position with an in-range integer line in its
\* window finds it, whatever out-of-range integer lines stand before it.
C4_QuantityInRange ==
    /\ \A k \in 1..Len(emitted) :
          LET e  == emitted[k]
              ls == PageLines(e.page)
          IN  /\ e.open < e.qty_idx
              /\ e.qty_idx < Len(ls)
              /\ InRangeInt(ls[e.qty_idx + 1])
              /\ e.qty = IntOf[ls[e.qty_idx + 1][1]]
              /\ e.qty >= 1 /\ e.qty <= 500
              /\ \A j \in (e.open + 1)..(e.qty_idx - 1) : ~InRangeInt(ls[j + 1])
    /\ (AtLine /\ Branch(line, in_totals) = "money") =>
          LET inr == {j \in (i + 1)..(Len(lines) - 1) :
                         j < i + 10 /\ InRangeInt(lines[j + 1])}
          IN  inr # {} =>
                 /\ FindQty(lines, i) \in inr
                 /\ \A j \in inr : FindQty(lines, i) <= j

\* a record whose quantity line stands behind an out-of-range integer line
C4_Witness ==
    \E k \in 1..Len(emitted) :
        \E j \in (emitted[k].open + 1)..(emitted[k].qty_idx - 1) :
            /\ RX_INT(PageLines(emitted[k].page)[j + 1])
            /\ IntOf[PageLines(emitted[k].page)[j + 1][1]] > 500

\* plain-text name lines of the model
NameLines == {LA, LB, LModel}

\* the number of name lines a page begins with
RECURSIVE NamePrefix(_)
NamePrefix(page) ==
    IF page # <<>> /\ Head(page) \in NameLines
    THEN 1 + NamePrefix(Tail(page))
    ELSE 0

\* the name lines of one record are split between the two pages and the
\* anchor triple that closes the record ends the second page
SplitRecord ==
    /\ Len(doc) = 2
    /\ doc[1] # <<>>
    /\ NamePrefix(doc[1]) = Len(doc[1])
    /\ LET n == NamePrefix(doc[2]) IN
          /\ n >= 1
          /\ n < Len(doc[2])
          /\ RX_MONEY_LINE(doc[2][n + 1])
          /\ ~is_project_total_only(doc[2][n + 1])
          /\ \A k \in (n + 1)..Len(doc[2]) : doc[2][k] # <<>>
          /\ FindQty(doc[2], n) # None
          /\ FindSum(doc[2], n, FindQty(doc[2], n)) = Len(doc[2]) - 1

SplitNameLines == doc[1] \o SubSeq(doc[2], 1, NamePrefix(doc[2]))

\* C5: for a record whose name lines are split between two pages, with the
\* anchor triple on the second page, the parse gives exactly one record, and
\* its name is the name lines of both pages joined in document order.
C5_NameSpansPageBreak ==
    (pc = "parsed" /\ SplitRecord) =>
        /\ Len(emitted) = 1
        /\ emitted[1].name = JoinLines(SplitNameLines)
        /\ emitted[1].page = 2
        /\ Len(ordered) = 1
        /\ ordered[1].name = JoinLines(SplitNameLines)

C5_Witness ==
    /\ pc = "parsed"
    /\ SplitRecord
    /\ Len(emitted) = 1
    /\ Len(doc[1]) + 1 <= Len(emitted[1].name)

\* C9 as claimed: a readable document whose parse ends with no record is
\* answered as a normal result, not as an error.
C9_EmptyParseIsNormalResult ==
    (pc = "responded" /\ filename_pdf /\ readable /\ ordered = <<>>) =>
        response.status = 200

\* C9 as the code has it: an unreadable document is answered 500, a parse
\* that ends with no record is answered 422 with the diagnostic counters,
\* a file name that is no .pdf is answered 400, and only a parse with at
\* least one record is answered 200, with one CSV row per record.
C9_EmptyParseIsReportedError ==
    pc = "responded" =>
        /\ ~filename_pdf => response.status = 400
        /\ (filename_pdf /\ ~readable) => response.status = 500
        /\ (filename_pdf /\ readable /\ ordered = <<>>) =>
              /\ response.status = 422
              /\ Len(response.debug) = 1
              /\ response.debug[1].pages = Len(doc)
              /\ response.debug[1].items_found = 0
        /\ (filename_pdf /\ readable /\ ordered # <<>>) =>
              /\ response.status = 200
              /\ Len(response.rows) = Len(ordered)

\* a document with lines but no record has been answered
C9_Witness ==
    /\ pc = "responded"
    /\ filename_pdf /\ readable
    /\ ordered = <<>>
    /\ buf # <<>>
    /\ response.status = 422

(***************************************************************************)
(* clean_name_from_buffer as a function of its argument: SpecClean calls   *)
(* it on every buffer of at most MaxBufLen lines over CleanLines.          *)
(***************************************************************************)
LShelfDim  == <<"Shkaf", "60x40", "mm">>
LTotalKg   == <<"Obshij", "ves", "12,5", "kg">>
LFotoName  == <<"Foto", "Gadget">>

CleanLines == {LA, LB, LModel, LDim, LWeight, LShelfDim, LTotalKg, LMoney,
               LBare, LQty3, LBig, LAddr, LNoise, LHeader, LFotoName, LRub}

\* no request and no parse is under way
ScanIdle ==
    /\ filename_pdf = TRUE /\ readable = TRUE /\ doc = <<>>
    /\ art_source = DefaultArtSource
    /\ mpc = "off"
    /\ ARTICLE_MAP = EmptyMap
    /\ ARTICLE_MAP_STATUS = "unset"
    /\ pc = "off"
    /\ p = 0
    /\ lines = <<>>
    /\ i = 0
    /\ ordered = <<>>
    /\ buf = <<>>
    /\ in_totals = FALSE
    /\ stats = [pages |-> 0, items_found |-> 0]
    /\ response = NoResponse
    /\ emitted = <<>>
    /\ bufsrc = <<>>

InitClean ==
    /\ ScanIdle
    /\ ParserIdle
    /\ cpc = "call"
    /\ \E n \in 0..MaxBufLen : cbuf \in [1..n -> CleanLines]
    /\ cname = <<>>

\* main.py:168-182
CleanCall ==
    /\ cpc = "call"
    /\ cname' = clean_name_from_buffer(cbuf)
    /\ cpc' = "done"
    /\ UNCHANGED cbuf
    /\ UNCHANGED <<requestVars, parserVars, moduleVars, scanVars, response>>

NextClean == CleanCall

SpecClean == InitClean /\ [][NextClean]_vars

\* the length of the run of dimension/weight lines that ends the buffer
RECURSIVE TailRun(_)
TailRun(b) ==
    IF b # <<>> /\ looks_like_dim_or_weight(b[Len(b)])
    THEN 1 + TailRun(SubSeq(b, 1, Len(b) - 1))
    ELSE 0

BeforeRun(b) == SubSeq(b, 1, Len(b) - TailRun(b))

\* C6: when the buffer ends with a run of one or more dimension/weight
\* lines, the name is the name of the buffer lines before the run; if those
\* are plain name lines, it is those lines joined.
C6_TrailingRunRemoved ==
    (cpc = "done" /\ TailRun(cbuf) >= 1) =>
        /\ cname = clean_name_from_buffer(BeforeRun(cbuf))
        /\ (\A k \in 1..Len(BeforeRun(cbuf)) : BeforeRun(cbuf)[k] \in NameLines)
              => cname = JoinLines(BeforeRun(cbuf))

\* a name line followed by a run of two dimension/weight lines
C6_Witness ==
    /\ cpc = "done"
    /\ TailRun(cbuf) >= 2
    /\ Len(cbuf) = TailRun(cbuf) + 1
    /\ cbuf[1] \in NameLines
    /\ cname = cbuf[1]

TokensOf(ts) == {ts[k] : k \in 1..Len(ts)}

\* C7: the name holds no token of any dimension/weight line of the buffer,
\* wherever the line stands in it.
C7_NoDimWeightText ==
    cpc = "done" =>
        \A k \in 1..Len(cbuf) :
            looks_like_dim_or_weight(cbuf[k])
                => TokensOf(cbuf[k]) \cap TokensOf(cname) = {}

(***************************************************************************)
(* The catalog of main.py, checked under Spec.                             *)
(***************************************************************************)
\* C8: whatever the catalog source, no error is raised; a source that is
\* missing or unreadable gives an empty catalog; and every record of the
\* parse gives exactly one row with its raw name, with an empty article
\* when the catalog has no key for it.
C8_CatalogNeverFails ==
    /\ mpc # "import_failed"
    /\ (mpc = "ready"
          /\ (~art_source.openpyxl \/ ~art_source.exists \/ ~art_source.opens))
          => ARTICLE_MAP = EmptyMap
    /\ (pc = "responded" /\ response.status = 200) =>
          /\ Len(response.rows) = Len(ordered)
          /\ \A k \in 1..Len(ordered) :
                /\ response.rows[k].name = ordered[k].name
                /\ response.rows[k].qty = ordered[k].qty
                /\ normalize_key(ordered[k].name) \notin DOMAIN ARTICLE_MAP
                      => response.rows[k].art = <<>>

(***************************************************************************)
(* build_csv_from_pdf (parser.py), one action per step.  pdf.tables is the *)
(* tables of all pages in page order and pdf.text the text lines of all    *)
(* pages in page order, which is how the two extractors walk the pages.    *)
(***************************************************************************)
MaxTables == 2
MaxTextLines == 2

Cell(ts) == ts

TItems ==
    << <<Cell(<<"No">>), Cell(<<"Naimenovanie">>), Cell(<<"Kol-vo">>), Cell(<<"Summa">>)>>,
       <<Cell(<<"1">>), Cell(<<"GR-65", "belyj">>), Cell(<<"3">>), Cell(<<"75", "RUB">>)>>,
       <<Cell(<<>>), Cell(<<"Itogo">>), Cell(<<"1">>), Cell(<<"75", "RUB">>)>> >>

THeaderOnly ==
    << <<Cell(<<"No">>), Cell(<<"Naimenovanie">>), Cell(<<"Kol-vo">>)>> >>

TUnlabelled ==
    << <<Cell(<<"A">>), Cell(<<"B">>), Cell(<<"C">>), Cell(<<"D">>)>>,
       <<Cell(<<"1">>), Cell(<<"Widget">>), Cell(<<"2,5">>), Cell(<<"75">>)>>,
       <<Cell(<<"1">>), Cell(<<"Gadget">>)>> >>

TTotalsOnly ==
    << <<Cell(<<"No">>), Cell(<<"Naimenovanie">>), Cell(<<"Kol-vo">>)>>,
       <<Cell(<<>>), Cell(<<"Vsego">>), Cell(<<"3">>)>>,
       <<Cell(<<"1">>), Cell(<<>>), Cell(<<"3">>)>>,
       <<Cell(<<"1">>), Cell(<<"Widget">>), Cell(<<"sht">>)>> >>

TableSet == {TItems, THeaderOnly, TUnlabelled, TTotalsOnly}

TextLines ==
    { <<"Widget", "25.00", "RUB", "3", "75", "RUB">>,
      <<"Gadget", "belyj", "5", "600", "rub.">>,
      <<"ab", "75", "3", "RUB">>,
      <<"Widget", "3", "sht">>,
      <<"Polka", "12000", "0", "rub.">>,
      <<"3", "RUB">> }

ItemsHeader ==
    <<StrCell(<<"Naimenovanie">>), StrCell(<<"Kod">>), StrCell(<<"Artikul">>),
      StrCell(<<"Cvet">>)>>

ItemsOk ==
    [opens |-> TRUE,
     rows |-> <<ItemsHeader,
                <<StrCell(<<"Polka", "GR-65">>), StrCell(<<"GR-65">>),
                  StrCell(<<"ART-7">>), StrCell(<<"grafit">>)>>,
                <<NoneCell, NoneCell, NoneCell, NoneCell>>,
                <<StrCell(<<"Widget">>), NoneCell, NumCell("5"), NoneCell>> >>]

ItemsNoName ==
    [opens |-> TRUE,
     rows |-> << <<StrCell(<<"Kod">>), StrCell(<<"Artikul">>)>>,
                 <<StrCell(<<"GR-65">>), StrCell(<<"ART-7">>)>> >>]

ItemsShortRow ==
    [opens |-> TRUE,
     rows |-> <<ItemsHeader, <<StrCell(<<"Polka", "GR-65">>)>> >>]

ItemsMissing == [opens |-> FALSE, rows |-> <<>>]

ItemsSources == {ItemsOk, ItemsNoName, ItemsShortRow, ItemsMissing}

InitParser ==
    /\ ScanIdle
    /\ CleanIdle
    /\ bpc = "call"
    /\ \E n \in 0..MaxTables : \E ts \in [1..n -> TableSet] :
          \E m \in 0..MaxTextLines : \E tx \in [1..m -> TextLines] :
             \E src \in ItemsSources : \E uc \in BOOLEAN :
                /\ uc \/ src = ItemsOk
                /\ build_args = [pdf |-> [tables |-> ts, text |-> tx],
                                 items_xlsx |-> src, use_catalog |-> uc]
    /\ table_rows = <<>>
    /\ pdf_rows = <<>>
    /\ fallback_ran = FALSE
    /\ catalog = EmptyMap
    /\ output = <<>>

\* parser.py:293
TryExtractTables ==
    /\ bpc = "call"
    /\ table_rows' = _try_extract_tables(build_args.pdf)
    /\ bpc' = "tables_done"
    /\ UNCHANGED <<build_args, pdf_rows, fallback_ran, catalog, output>>
    /\ UNCHANGED <<requestVars, moduleVars, scanVars, response, cleanVars>>

\* the variant of ReturnPrimary that adds the rows of the text parser
ReturnPrimaryAndFallback ==
    /\ bpc = "tables_done"
    /\ table_rows # <<>>
    /\ pdf_rows' = table_rows \o _fallback_regex_parse(build_args.pdf)
    /\ bpc' = "parsed"
    /\ UNCHANGED <<build_args, table_rows, fallback_ran, catalog, output>>
    /\ UNCHANGED <<requestVars, moduleVars, scanVars, response, cleanVars>>

\* parser.py:294-295
ReturnPrimary ==
    /\ bpc = "tables_done"
    /\ table_rows # <<>>
    /\ pdf_rows' = table_rows
    /\ bpc' = "parsed"
    /\ UNCHANGED <<build_args, table_rows, fallback_ran, catalog, output>>
    /\ UNCHANGED <<requestVars, moduleVars, scanVars, response, cleanVars>>

\* parser.py:296
RunFallback ==
    /\ bpc = "tables_done"
    /\ table_rows = <<>>
    /\ pdf_rows' = _fallback_regex_parse(build_args.pdf)
    /\ fallback_ran' = TRUE
    /\ bpc' = "parsed"
    /\ UNCHANGED <<build_args, table_rows, catalog, output>>
    /\ UNCHANGED <<requestVars, moduleVars, scanVars, response, cleanVars>>

\* parser.py:311-317
LoadCatalog ==
    /\ bpc = "parsed"
    /\ catalog' = IF build_args.use_catalog
                     /\ ~_load_items_xlsx(build_args.items_xlsx).raised
                  THEN _load_items_xlsx(build_args.items_xlsx).idx
                  ELSE EmptyMap
    /\ bpc' = "catalog"
    /\ UNCHANGED <<build_args, table_rows, pdf_rows, fallback_ran, output>>
    /\ UNCHANGED <<requestVars, moduleVars, scanVars, response, cleanVars>>

\* parser.py:325-352
WriteRows ==
    /\ bpc = "catalog"
    /\ output' = [k \in 1..Len(pdf_rows) |-> CsvRow(pdf_rows[k], catalog)]
    /\ bpc' = "done"
    /\ UNCHANGED <<build_args, table_rows, pdf_rows, fallback_ran, catalog>>
    /\ UNCHANGED <<requestVars, moduleVars, scanVars, response, cleanVars>>

NextParser ==
    \/ TryExtractTables
    \/ ReturnPrimary
    \/ RunFallback
    \/ LoadCatalog
    \/ WriteRows

SpecParser == InitParser /\ [][NextParser]_vars

\* C10: parse_pdf_items runs the text parser exactly when the table
\* extractor gave no row; when the table extractor gave rows, they are the
\* result, unchanged and with nothing added; otherwise the result is what
\* the text parser gives.
C10_FallbackOnlyWhenPrimaryEmpty ==
    bpc \in {"parsed", "catalog", "done"} =>
       /\ fallback_ran <=> (table_rows = <<>>)
       /\ table_rows = _try_extract_tables(build_args.pdf)
       /\ table_rows # <<>> => pdf_rows = table_rows
       /\ table_rows = <<>> => pdf_rows = _fallback_regex_parse(build_args.pdf)

\* tables that give rows while the text would give rows too: the text parser
\* is not run and its rows are not in the result
C10_Witness ==
    /\ bpc = "parsed"
    /\ table_rows # <<>>
    /\ _fallback_regex_parse(build_args.pdf) # <<>>
    /\ ~fallback_ran
    /\ pdf_rows = table_rows

(***************************************************************************)
(* The scan of parse_items: buffer, anchors, window, precedence and        *)
(* progress.  Checked under Spec.                                          *)
(***************************************************************************)
IsControlLine(ln) ==
    \/ is_noise(ln)
    \/ is_header_token(ln)
    \/ is_totals_block(ln)
    \/ is_project_total_only(ln)

\* C11: in every reachable state the NameBuffer holds no line classified as
\* noise, header-token, totals-start or bare-total, whatever lines and pages
\* were scanned and also after unresolved money-lines were appended.
C11_BufferHoldsNoControlLine ==
    \A k \in 1..Len(buf) : ~IsControlLine(buf[k])

\* on the second page, the buffer holds an unresolved money-line of the
\* first page and a line appended after it, and control lines were met
C11_Witness ==
    /\ pc = "scan"
    /\ p = 2
    /\ \E k \in 1..Len(buf) :
          /\ RX_MONEY_LINE(buf[k])
          /\ bufsrc[k][1] = 1
          /\ k < Len(buf)
    /\ \E j \in 1..Len(PageLines(1)) : IsControlLine(PageLines(1)[j])

\* the line at the scan position opens a successful anchor triple
TripleAt ==
    /\ AtLine
    /\ Branch(line, in_totals) = "money"
    /\ FindQty(lines, i) # None
    /\ FindSum(lines, i, FindQty(lines, i)) # None

\* the quantity the aggregation table holds for a name, 0 if it has none
QtyOf(ord, name) ==
    IF \E k \in 1..Len(ord) : ord[k].name = name
    THEN (CHOOSE r \in {ord[k] : k \in 1..Len(ord)} : r.name = name).qty
    ELSE 0

NamesOf(ord) == {ord[k].name : k \in 1..Len(ord)}

\* the step taken from a state where TripleAt holds
TripleEffect ==
    LET qty_idx == FindQty(lines, i)
        sum_idx == FindSum(lines, i, qty_idx)
        name    == clean_name_from_buffer(buf)
        qty     == IntOf[lines[qty_idx + 1][1]]
    IN  /\ buf' = <<>>
        /\ i' = sum_idx + 1
        /\ p' = p /\ lines' = lines
        /\ name # <<>> =>
              /\ QtyOf(ordered', name) = QtyOf(ordered, name) + qty
              /\ NamesOf(ordered') = NamesOf(ordered) \cup {name}
              /\ \A n \in NamesOf(ordered) \ {name} :
                    QtyOf(ordered', n) = QtyOf(ordered, n)
              /\ Len(emitted') = Len(emitted) + 1
              /\ emitted'[Len(emitted')].name = name
              /\ emitted'[Len(emitted')].qty = qty
        /\ name = <<>> => ordered' = ordered /\ emitted' = emitted

\* no line of an emitted triple, from its opening money-line to its closing
\* anchor, is the source of a buffer line or of a name
TripleLinesNotBuffered ==
    \A k \in 1..Len(emitted) :
       \A j \in emitted[k].open..emitted[k].sum_idx :
          /\ \A b \in 1..Len(bufsrc) : bufsrc[b] # <<emitted[k].page, j>>
          /\ \A m \in 1..Len(emitted) :
                \A b \in 1..Len(emitted[m].src) :
                   emitted[m].src[b] # <<emitted[k].page, j>>

\* a triple met with an empty buffer leaves no record
NamelessResult ==
    (doc = TwoPages(NamelessLines, Len(NamelessLines)) /\ pc \in {"parsed", "responded"})
       => ordered = <<[name |-> LA, qty |-> 3]>> /\ Len(emitted) = 1

\* the document [plain name, dimension line, money-line, 3, money-line]
ExampleResult ==
    (doc = TwoPages(ExampleLines, Len(ExampleLines)) /\ pc \in {"parsed", "responded"})
       => ordered = <<[name |-> LA, qty |-> 3]>>

\* C12: on a successful anchor triple parse_items takes the name from the
\* buffer, clears the buffer, adds (name, int(line[qty_idx])) to the table
\* if and only if the name is non-empty, and moves the scan to sum_idx + 1,
\* so that the lines i..sum_idx are never appended to the buffer; the lines
\* [plain name, dimension line, money-line, 3, money-line] give the single
\* record (plain name, 3).
C12_TripleFinalizes ==
    /\ [](TripleLinesNotBuffered /\ ExampleResult /\ NamelessResult)
    /\ [][TripleAt => TripleEffect]_vars

\* the example after its triple: buffer empty, scan past the closing anchor,
\* one record
C12_Witness ==
    /\ doc = TwoPages(ExampleLines, Len(ExampleLines))
    /\ pc = "scan"
    /\ buf = <<>>
    /\ i = Len(ExampleLines)
    /\ ordered = <<[name |-> LA, qty |-> 3]>>
    /\ emitted[1].open = 2 /\ emitted[1].sum_idx = 4

\* the lines the lookahead of a money-line at index at inspects
Window(ls, at) == {j \in (at + 1)..(at + Lookahead - 1) : j < Len(ls)}

\* no integer-line with a value in QtyMin..QtyMax in the window
NoQtyInWindow(ls, at) ==
    \A j \in Window(ls, at) :
       ~(RX_INT(ls[j + 1]) /\ IntOf[ls[j + 1][1]] \in QtyMin..QtyMax)

\* a quantity in the window, and no closing anchor after it in the window
QtyButNoClosing(ls, at) ==
    /\ ~NoQtyInWindow(ls, at)
    /\ \A q \in Window(ls, at) :
          (RX_INT(ls[q + 1]) /\ IntOf[ls[q + 1][1]] \in QtyMin..QtyMax) =>
             \A j \in Window(ls, at) :
                j > q => ~(RX_MONEY_LINE(ls[j + 1]) \/ RX_ANY_RUB(ls[j + 1]))

\* the scan is at a money-line that is not discarded or taken as a totals
\* trigger, and its triple does not complete
UnresolvedAt ==
    /\ AtLine
    /\ ~IsControlLine(line)
    /\ ~in_totals
    /\ RX_MONEY_LINE(line)
    /\ NoQtyInWindow(lines, i) \/ QtyButNoClosing(lines, i)

\* C13: a money-line reached by the scan whose window has no in-range
\* quantity, or a quantity but no closing anchor after it, raises no error and
\* emits no record: exactly that line is appended to the buffer, the scan
\* advances by exactly one line, and in_totals and the aggregation table are
\* unchanged.
C13_UnresolvedMoneyLineIsBuffered ==
    [][UnresolvedAt =>
          /\ buf' = Append(buf, line)
          /\ i' = i + 1
          /\ pc' = "scan" /\ p' = p /\ lines' = lines
          /\ in_totals' = in_totals
          /\ ordered' = ordered
          /\ emitted' = emitted
          /\ stats' = stats]_vars

\* a money-line with a quantity but no closing anchor in its window has just
\* been appended, with the buffer not empty before it
C13_Witness ==
    /\ pc = "scan"
    /\ i >= 1
    /\ Len(buf) >= 2
    /\ bufsrc[Len(bufsrc)] = <<p, i - 1>>
    /\ buf[Len(buf)] = lines[i]
    /\ RX_MONEY_LINE(lines[i])
    /\ QtyButNoClosing(lines, i - 1)
    /\ ~in_totals

\* an integer-line with a value in QtyMin..QtyMax
IsQuantityLine(ln) == RX_INT(ln) /\ IntOf[ln[1]] \in QtyMin..QtyMax

\* a money-line, or a line that holds the currency symbol
IsClosingLine(ln) == RX_MONEY_LINE(ln) \/ RX_ANY_RUB(ln)

\* o, q, s are the indices of a well-formed triple in the page lines ls
WellPlaced(ls, o, q, s) ==
    /\ o < q /\ q < s
    /\ s < Len(ls) /\ s < o + Lookahead
    /\ RX_MONEY_LINE(ls[o + 1])
    /\ IsQuantityLine(ls[q + 1])
    /\ \A j \in (o + 1)..(q - 1) : ~IsQuantityLine(ls[j + 1])
    /\ IsClosingLine(ls[s + 1])
    /\ \A j \in (q + 1)..(s - 1) : ~IsClosingLine(ls[j + 1])

\* C14: for an opening money-line at index i of a page, the indices of an
\* accepted triple satisfy i < qty_idx < sum_idx < min(lines of the page,
\* i + 10); qty_idx is the first integer-line with a value in 1..500 in that
\* range and sum_idx the first line after it in that range that is a
\* money-line or holds the currency symbol; all three lines are lines of the
\* same page.
C14_TripleWithinWindow ==
    /\ \A k \in 1..Len(emitted) :
          WellPlaced(PageLines(emitted[k].page), emitted[k].open,
                     emitted[k].qty_idx, emitted[k].sum_idx)
    /\ TripleAt =>
          /\ lines = PageLines(p)
          /\ WellPlaced(lines, i, FindQty(lines, i),
                        FindSum(lines, i, FindQty(lines, i)))

\* a triple whose closing anchor is the last line the window reaches: the
\* ninth line after the opening money-line
C14_Witness ==
    \E k \in 1..Len(emitted) :
       /\ emitted[k].sum_idx = emitted[k].open + Lookahead - 1
       /\ emitted[k].qty_idx = emitted[k].sum_idx - 1
       /\ Len(PageLines(emitted[k].page)) = emitted[k].open + Lookahead

\* the effects of the five branches of the loop body on the scan state
DiscardEffect ==
    /\ i' = i + 1 /\ buf' = buf /\ in_totals' = in_totals
    /\ ordered' = ordered /\ emitted' = emitted

TotalsEffect ==
    /\ i' = i + 1 /\ buf' = <<>> /\ in_totals' = TRUE
    /\ ordered' = ordered /\ emitted' = emitted

AnchorEffect ==
    /\ in_totals' = in_totals
    /\ \/ /\ buf' = Append(buf, line) /\ i' = i + 1
          /\ ordered' = ordered /\ emitted' = emitted
       \/ /\ buf' = <<>> /\ i' > i + 2
          /\ Len(emitted') <= Len(emitted) + 1

AppendEffect ==
    /\ i' = i + 1 /\ buf' = Append(buf, line) /\ in_totals' = in_totals
    /\ ordered' = ordered /\ emitted' = emitted

\* C15: the line at the scan position is handled by one fixed precedence:
\* noise or header-token (discard), then totals-start or bare-total (set
\* in_totals, clear the buffer), then the in_totals discard, then money-line
\* (opening anchor), then everything else (append); so a line that is a bare
\* total and a money-line at once is always a totals trigger at the scan
\* position, never an opening anchor.
C15_FixedPrecedence ==
    [][AtLine =>
          /\ IF is_noise(line) \/ is_header_token(line) THEN DiscardEffect
             ELSE IF is_project_total_only(line) \/ is_totals_block(line)
                  THEN TotalsEffect
             ELSE IF in_totals THEN DiscardEffect
             ELSE IF RX_MONEY_LINE(line) THEN AnchorEffect
             ELSE AppendEffect
          /\ (is_project_total_only(line) /\ RX_MONEY_LINE(line)) =>
                TotalsEffect]_vars

\* the bare total that is also a money-line, followed by a quantity and a
\* closing line, has just been taken as the totals trigger; before it the
\* line that is noise and totals-start at once was discarded without setting
\* in_totals, so the item after it was recorded
C15_Witness ==
    /\ \E c \in 0..Len(PrecedenceLines) : doc = TwoPages(PrecedenceLines, c)
    /\ pc = "scan"
    /\ i >= 1
    /\ is_project_total_only(lines[i]) /\ RX_MONEY_LINE(lines[i])
    /\ i + 1 < Len(lines)
    /\ IsQuantityLine(lines[i + 1]) /\ IsClosingLine(lines[i + 2])
    /\ in_totals
    /\ buf = <<>>
    /\ ordered = <<[name |-> LA, qty |-> 3]>>

(***************************************************************************)
(* Termination of parse_items.  The loops of main.py:199-263 are ordinary  *)
(* sequential code: a step of the loops that can be taken is taken, which  *)
(* is weak fairness of the steps of parse_items.                           *)
(***************************************************************************)
\* a step of the page loop or of the scan loop, or the return
ScanStep ==
    \/ NextPage
    \/ EndPage
    \/ Discard
    \/ TotalsTrigger
    \/ SkipInTotals
    \/ MoneyNoQty
    \/ MoneyNoSum
    \/ Triple
    \/ Plain
    \/ ParseReturn

\* most lines of a free-form or itemised document of SpecLive
MaxLiveLines == 4

\* SpecLive starts the service with the default workbook and takes the
\* documents of Spec of at most MaxLiveLines lines and the padded items whose
\* padding is page-number lines
InitLive ==
    /\ Init
    /\ art_source = DefaultArtSource
    /\ \/ doc = <<>>
       \/ IsNoisePaddedDoc(doc)
       \/ Len(doc) = 2 /\ Len(doc[1]) + Len(doc[2]) <= MaxLiveLines

SpecLive == InitLive /\ [][Next]_vars /\ WF_vars(ScanStep)

\* the scan position, as (page, index); a page without lines has no position
ScanPos == <<p, i>>

PosBefore(a, b) == a[1] < b[1] \/ (a[1] = b[1] /\ a[2] < b[2])

\* C16: parse_items terminates on every finite document; every iteration of
\* the scan loop of a page strictly increases the scan index (by one, or to
\* sum_idx + 1 > i), so each line is the scan position at most once; and
\* each lookahead inspects at most 9 lines.
C16_ScanTerminates ==
    /\ (pc \in {"pages", "scan"}) ~> (pc = "parsed")
    /\ [][AtLine => (p' = p /\ lines' = lines /\ i' > i /\ i' <= Len(lines)
                     /\ (i' = i + 1 \/ TripleAt))]_vars
    /\ [][(pc = "scan" /\ pc' = "scan" /\ ScanPos' # ScanPos)
             => PosBefore(ScanPos, ScanPos')]_vars
    /\ [](AtLine => Cardinality(Window(lines, i)) <= Lookahead - 1)

\* a parse that has returned from a page of more lines than the window: the
\* lookahead of its money-line inspected nine lines and found no closing
\* anchor, and the scan went on line by line to the end of the page
C16_Witness ==
    /\ pc = "parsed"
    /\ p = Len(doc)
    /\ \E pg \in 1..Len(doc) : \E o \in 0..(Len(PageLines(pg)) - 1) :
          /\ RX_MONEY_LINE(PageLines(pg)[o + 1])
          /\ Len(PageLines(pg)) > o + Lookahead
          /\ Cardinality(Window(PageLines(pg), o)) = Lookahead - 1
          /\ QtyButNoClosing(PageLines(pg), o)
    /\ emitted = <<>>

====
